---- MODULE Spec2Model ----
(***************************************************************************)
(* The crawl engine: the page table behind DatabaseManager, pop_frontier   *)
(* under concurrent workers, and the crawl loop start_spider / crawl_url.  *)
(*                                                                         *)
(* The specifications share the database variables:                        *)
(*   Spec        the program as it runs: one spider, start_spider's loop,  *)
(*               under a robots policy that disallows nothing.             *)
(*   FairSpec    Spec with the spider always taking its next step.         *)
(*   SpecRobots  the same crawl under robots policies that disallow URLs.  *)
(*   SpecPop     several workers calling pop_frontier concurrently.        *)
(*   SpecSite    several workers calling save_site concurrently.           *)
(*   SpecLink    any sequence of add_page_link calls.                      *)
(*   SpecFetch   the sitemap walk and get_page of one crawl, request by    *)
(*               request.                                                  *)
(*   SpecData    any sequence of save_page_data calls.                     *)
(*   SpecPush    several workers calling add_to_frontier and               *)
(*               create_new_page concurrently.                             *)
(*   SpecCanon   canonicalize on URLs spelled out as strings.              *)
(***************************************************************************)
EXTENDS Integers, Sequences, FiniteSets, TLC

(* ------------------------------ bounds -------------------------------- *)

\* Size of the URL universe (canonical URLs are numbered 1..NumUrls).
NumUrls == 3
\* Number of distinct page bodies the web can serve.
NumBodies == 2
\* Number of workers of SpecPop (worker 1 is the spider of Spec).
NumWorkers == 2
\* Largest number of links one document (page or sitemap tree) yields.
MaxLinks == 2
\* Number of seed pages (URLs 1..NumSeeds).
NumSeeds == 1

(* --------------------------- python values ---------------------------- *)

\* None where the value is an id, a body or a hash.
None == 0
\* None where the value is a tuple.
Nothing == << >>
\* None where the value is a string code.
NoneStr == "None"

Urls == 1..NumUrls
Bodies == 1..NumBodies
Workers == 1..NumWorkers
\* start_spider is the first worker.
Spider == CHOOSE w \in Workers : \A v \in Workers : w <= v

(* ------------------------------ state --------------------------------- *)

VARIABLES
    pages,      \* table page: sequence of rows, the id of a row is its index
    sites,      \* table site: sequence of rows, the id of a row is its index
    links,      \* table link: set of <<from_page, to_page>>
    page_data,  \* table page_data: sequence of rows
    images,     \* table image: sequence of rows
    pop,        \* per worker: the pop_frontier call it is in
    popped,     \* history: the page ids pop_frontier has returned
    repopped,   \* history: the page ids pop_frontier has returned twice
    pc,         \* position of the spider in start_spider / crawl_url
    frame,      \* local variables of the running crawl_url
    robots,     \* robot_file_parser: the URLs its rules disallow
    dns_failed, \* history: the page ids crawl_url left at the DNS lookup
    save,       \* per worker: the save_site call it is in
    add_link,   \* the last add_page_link call and its outcome
    sitemaps_walked, \* history: the domains find_sitemap_links was called for
    walk,       \* the get_sitemap_urls call: its recursion stack and result
    push,       \* per worker: the add_to_frontier / create_new_page call it is in
    data_call,  \* the save_page_data call and its inserts
    canon       \* the canonicalize call: its argument and what it returned

db == <<pages, sites, links, page_data, images>>
vars == <<pages, sites, links, page_data, images, pop, popped, repopped, pc, frame,
          robots, dns_failed, save, add_link, sitemaps_walked, walk, push,
          data_call, canon>>
\* The calls that are followed on their own, outside the crawl loop.
calls == <<walk, push, data_call, canon>>
\* What pop_frontier and most steps of crawl_url leave alone.
others == <<robots, dns_failed, save, add_link, sitemaps_walked, calls>>

PageIds == DOMAIN pages

\* Page(url=..., site_id=..., page_type_code=...): the other columns are null.
NewPage(url, site_id, page_type_code) ==
    [url |-> url, page_type_code |-> page_type_code, html_content |-> None,
     html_content_hash |-> None, http_status_code |-> None, site_id |-> site_id]

\* The rows that hold a URL (select(Page).where(Page.url == url)).
PagesWithUrl(url) == {i \in PageIds : pages[i].url = url}

\* The unique constraint on page.url: an insert of this URL fails with
\* IntegrityError.
UrlTaken(url) == PagesWithUrl(url) # {}

FrontierRowsAny == PageIds

\* select(Page).where(Page.page_type_code == "FRONTIER")
FrontierRows == {i \in PageIds : pages[i].page_type_code = "FRONTIER"}

(* --------------------------- pop_frontier ----------------------------- *)

IdlePop == [pc |-> "call", page |-> None, ret |-> Nothing]

\* A row selected FOR UPDATE is locked until the selecting session commits.
LockedBy(w) == IF pop[w].pc = "locked" THEN {pop[w].page} ELSE {}

RowLockFreeNoLock(p, w) == TRUE

\* .with_for_update(): the select waits while another session holds the row.
RowLockFree(p, w) == \A v \in Workers \ {w} : p \notin LockedBy(v)

PopTargetStateFrontier == "FRONTIER"

\* values(page_type_code="CRAWLING")
PopTargetState == "CRAWLING"

\* select(Page).where(page_type_code == "FRONTIER").limit(1).with_for_update():
\* one FRONTIER row, whichever the scan meets first, is locked.  The update of
\* another session is invisible until it commits, so a locked row still reads
\* FRONTIER here and the select waits for it.
PopSelect(w) ==
    /\ pop[w].pc = "call"
    /\ \E p \in FrontierRows :
        /\ RowLockFree(p, w)
        /\ pop' = [pop EXCEPT ![w] = [pc |-> "locked", page |-> p,
                                      ret |-> <<p, pages[p].url>>]]
    /\ UNCHANGED <<db, popped, repopped, pc, frame, others>>

\* update(Page).where(id == page.id).values("CRAWLING"); commit; return.
PopCommit(w) ==
    /\ pop[w].pc = "locked"
    /\ pages' = [pages EXCEPT ![pop[w].page].page_type_code = PopTargetState]
    /\ pop' = [pop EXCEPT ![w].pc = "ret"]
    /\ popped' = popped \cup {pop[w].page}
    /\ repopped' = repopped \cup ({pop[w].page} \cap popped)
    /\ UNCHANGED <<sites, links, page_data, images, pc, frame, others>>

\* page is None: "Frontier is empty", the call returns None.
PopEmpty(w) ==
    /\ pop[w].pc = "call"
    /\ FrontierRows = {}
    /\ pop' = [pop EXCEPT ![w] = [pc |-> "ret", page |-> None, ret |-> Nothing]]
    /\ UNCHANGED <<db, popped, repopped, pc, frame, others>>

pop_frontier(w) == PopSelect(w) \/ PopCommit(w) \/ PopEmpty(w)

\* No add_page_link call yet.
NoLinkCall == [from_page |-> None, to_page |-> None, added |-> FALSE,
               raised |-> FALSE]

\* A worker that is in no save_site call.
IdleSave == [pc |-> "call", domain |-> << >>, site_id |-> None, ret |-> None,
             raised |-> FALSE]

\* No get_sitemap_urls call is running.
NoWalk == [pc |-> "idle", stack |-> << >>, ret |-> {}, fetched |-> {},
           failures |-> {}, raised |-> FALSE]

\* A worker that is in no add_to_frontier or create_new_page call.
IdlePush == [pc |-> "call", op |-> NoneStr, url |-> None, page_id |-> None,
             ret |-> None, raised |-> FALSE]

\* No save_page_data call yet.
NoDataCall == [entries |-> << >>, inserts |-> << >>, raised |-> FALSE]

\* No canonicalize call yet.
NoCanon == [url |-> << >>, once |-> {}, twice |-> {}]

\* Outside their own specifications none of these calls is followed.
InitCalls ==
    /\ sitemaps_walked = << >>
    /\ walk = NoWalk
    /\ push = [w \in Workers |-> IdlePush]
    /\ data_call = NoDataCall
    /\ canon = NoCanon

(* ------------------ concurrent workers (SpecPop) ---------------------- *)

\* The locals of crawl_url before a call (and after it returned).
NoFrame ==
    [frontier_id |-> None, current_url |-> None, page_id |-> None,
     domain |-> << >>, site_id |-> None, sitemap_urls |-> {}, page_urls |-> {},
     urls_to_remove |-> {}, page_data_entries |-> << >>, url |-> None,
     html |-> None,
     data_type |-> NoneStr, status |-> None, new_page_id |-> None,
     original |-> Nothing, new_links |-> {}, link |-> None, link_id |-> None,
     requests |-> << >>, error |-> NoneStr, download |-> NoneStr]

\* A worker takes the result of its call and calls again while it got a page.
WorkerNext(w) ==
    /\ pop[w].pc = "ret"
    /\ pop[w].ret # Nothing
    /\ pop' = [pop EXCEPT ![w] = IdlePop]
    /\ UNCHANGED <<db, popped, repopped, pc, frame, others>>

\* The page table the workers start from: the first k URLs, all FRONTIER.
InitPop ==
    /\ \E k \in 1..NumUrls :
         pages = [i \in 1..k |-> NewPage(i, None, "FRONTIER")]
    /\ sites = << >>
    /\ links = {}
    /\ page_data = << >>
    /\ images = << >>
    /\ pop = [w \in Workers |-> IdlePop]
    /\ popped = {}
    /\ repopped = {}
    /\ pc = "idle"
    /\ frame = NoFrame
    /\ robots = {}
    /\ dns_failed = {}
    /\ save = [w \in Workers |-> IdleSave]
    /\ add_link = NoLinkCall
    /\ InitCalls

NextPop ==
    \/ \E w \in Workers : PopSelect(w)
    \/ \E w \in Workers : PopCommit(w)
    \/ \E w \in Workers : PopEmpty(w)
    \/ \E w \in Workers : WorkerNext(w)

SpecPop == InitPop /\ [][NextPop]_vars

(* ----------------------------- the web -------------------------------- *)

\* netloc of a URL, as its labels.  URLs 1 and 2 are the same site with and
\* without www, URL 3 is a second site, URL 4 is outside the allow-list.
UrlHost(u) ==
    CASE u % 4 = 1 -> <<"gov", "si">>
      [] u % 4 = 2 -> <<"www", "gov", "si">>
      [] u % 4 = 3 -> <<"evem", "gov", "si">>
      [] OTHER     -> <<"example", "com">>

\* check_if_binary: the URL ends with one of binary_file_extensions; the
\* result is the data type of that extension.
check_if_binary(u) == IF u % 3 = 0 THEN "PDF" ELSE NoneStr

\* is_url_allowed: robot_file_parser.can_fetch(USER_AGENT, url).
is_url_allowed(u) == u \notin robots

\* is_domain_allowed: govsi_regex matches the netloc.
is_domain_allowed(u) == UrlHost(u)[Len(UrlHost(u)) - 1] = "gov"

\* is_url_allowed(url, robot_file_parser) and is_domain_allowed(url).
IsAllowed(u) == is_url_allowed(u) /\ is_domain_allowed(u)

find_links_unfiltered(raw) == raw

\* find_links: of the URLs the anchors and onclick handlers name, the ones
\* that pass both filters.
find_links(raw) == {u \in raw : IsAllowed(u)}

\* find_sitemap_links: of the URLs the sitemap tree names, the ones that pass
\* both filters.
find_sitemap_links(raw) == {u \in raw : IsAllowed(u)}

\* find_images: the img tags of a body; one body in three has an image, the
\* others none.
find_images(html) ==
    IF html % 3 = 1 THEN <<[page_id |-> None]>> ELSE << >>

\* The data types a raw download can be classified as (not HTML).
DataTypes == {"PDF", "UNKNOWN"}

\* response.status / document.status_code of a fetch that returns (the raw
\* download returns only with 200).
HttpStatuses == {200}

\* if status != 200: raise
DownloadStatus == 200

\* hashlib.sha256(html).hexdigest(): injective on the bodies of the model,
\* and never one of the bodies.
Sha256(html) == NumBodies + html

\* str(e).split(" at ")[0] of the exception page.goto raises: the aborted
\* load, and one of the other shapes.
NavigationErrors == {"net::ERR_ABORTED", "net::ERR_CONNECTION_RESET"}

\* How the raw download ends when get_page returns nothing from it:
\* requests.get raises, the status is not 200, or the content type is
\* classified as HTML.
DownloadFailures == {"raised", "status", "HTML"}

refresh_site_available_time_skipped(requests, domain) == requests

\* refresh_site_available_time(domain, ip, robot_delay): the wait of the
\* politeness gate for the key of this domain and its address, on the record
\* of the requests.
refresh_site_available_time(requests, domain) ==
    Append(requests, <<"wait", domain>>)

\* The sets of URLs one document can name.
LinkSets == {s \in SUBSET Urls : Cardinality(s) <= MaxLinks}

(* ------------------------- DatabaseManager ---------------------------- *)

StripWwwNot(domain) == domain

\* domain.replace("www.", "")
StripWww(domain) == SelectSeq(domain, LAMBDA l : l # "www")

SitesWithDomain(domain) == {i \in DOMAIN sites : sites[i].domain = domain}

get_site_as_given(domain) ==
    IF SitesWithDomain(domain) = {} THEN None
    ELSE CHOOSE i \in SitesWithDomain(domain) : TRUE

\* get_site: the row of the normalised domain, or None.
get_site(domain) ==
    IF SitesWithDomain(StripWww(domain)) = {} THEN None
    ELSE CHOOSE i \in SitesWithDomain(StripWww(domain)) : TRUE

\* save_site: insert, or on IntegrityError read the existing row.
save_site_id(domain) ==
    IF SitesWithDomain(StripWww(domain)) = {} THEN Len(sites) + 1
    ELSE CHOOSE i \in SitesWithDomain(StripWww(domain)) : TRUE

save_site_rows(domain) ==
    IF SitesWithDomain(StripWww(domain)) = {}
    THEN Append(sites, [domain |-> StripWww(domain)])
    ELSE sites

add_to_frontier_id_existing(link) ==
    IF UrlTaken(link) THEN CHOOSE i \in PagesWithUrl(link) : TRUE
    ELSE Len(pages) + 1

\* add_to_frontier: the id of the inserted row, None on IntegrityError.
add_to_frontier_id(link) == IF UrlTaken(link) THEN None ELSE Len(pages) + 1

add_to_frontier_rows(link) ==
    IF UrlTaken(link) THEN pages
    ELSE Append(pages, NewPage(link, None, "FRONTIER"))

create_new_page_id_fresh(url) == Len(pages) + 1

\* create_new_page: the id of the inserted row, or on IntegrityError the id
\* of the row that holds the URL.
create_new_page_id(url) ==
    IF UrlTaken(url) THEN CHOOSE i \in PagesWithUrl(url) : TRUE
    ELSE Len(pages) + 1

create_new_page_rows_nosite(url, site_id, page_type_code) ==
    IF UrlTaken(url) THEN pages
    ELSE Append(pages, NewPage(url, None, page_type_code))

create_new_page_rows(url, site_id, page_type_code) ==
    IF UrlTaken(url) THEN pages
    ELSE Append(pages, NewPage(url, site_id, page_type_code))

\* update_page: every column but the url is overwritten.
update_page(page_id, status, site_id, html, html_hash, page_type_code) ==
    [pages EXCEPT ![page_id] =
        [url |-> @.url, page_type_code |-> page_type_code,
         html_content |-> html, html_content_hash |-> html_hash,
         http_status_code |-> status, site_id |-> site_id]]

RedirectStatus == 301

update_page_redirect_frontier(page_id, site_id) ==
    [pages EXCEPT ![page_id] =
        [@ EXCEPT !.page_type_code = "FRONTIER",
                  !.http_status_code = RedirectStatus,
                  !.site_id = site_id]]

\* update_page_redirect: state, status and site are overwritten.
update_page_redirect(page_id, site_id) ==
    [pages EXCEPT ![page_id] =
        [@ EXCEPT !.page_type_code = "REDIRECT",
                  !.http_status_code = RedirectStatus,
                  !.site_id = site_id]]

mark_page_as_failed_site_only(page_id, site_id) ==
    [pages EXCEPT ![page_id] =
        [@ EXCEPT !.site_id = IF site_id # None THEN site_id ELSE @]]

\* mark_page_as_failed: the state, and the site when one is given.
mark_page_as_failed(page_id, site_id) ==
    [pages EXCEPT ![page_id] =
        [@ EXCEPT !.page_type_code = "FAILED",
                  !.site_id = IF site_id # None THEN site_id ELSE @]]

\* check_pages_hash_collision: the rows that store this hash; the call
\* returns the first row of the result, None without one.
HashRows(html_hash) == {i \in PageIds : pages[i].html_content_hash = html_hash}

check_pages_hash_collision_html_only(html_hash) ==
    IF \A i \in HashRows(html_hash) : pages[i].page_type_code # "HTML"
    THEN {Nothing}
    ELSE {<<i, pages[i].site_id>> : i \in HashRows(html_hash)}

check_pages_hash_collision(html_hash) ==
    IF HashRows(html_hash) = {} THEN {Nothing}
    ELSE {<<i, pages[i].site_id>> : i \in HashRows(html_hash)}

\* The primary key of link: a second insert of an edge fails with
\* IntegrityError.
LinkTaken(from_page_id, to_page_id) == <<from_page_id, to_page_id>> \in links

add_page_link_caught_none == {}

\* except exc.IntegrityError: the exceptions add_page_link keeps to itself.
add_page_link_caught == {"IntegrityError"}

\* add_page_link raises what its commit raises and it does not catch.
add_page_link_raises(to_page_id, from_page_id) ==
    LinkTaken(from_page_id, to_page_id)
        /\ "IntegrityError" \notin add_page_link_caught

add_page_link_reversed(to_page_id, from_page_id) ==
    links \cup {<<to_page_id, from_page_id>>}

\* add_page_link: Link(from_page, to_page); an existing edge is kept as is.
add_page_link(to_page_id, from_page_id) ==
    links \cup {<<from_page_id, to_page_id>>}

\* save_images: one row per image.
save_images(page_images) == images \o page_images

\* The codes seed_default puts into data_type (of the document types PDF,
\* DOC and DOCX are in the model).
DataTypeCodes == {"PDF", "DOC", "DOCX", "UNKNOWN"}

\* The codes a PageData entry can carry: those of data_type, and one that
\* data_type does not hold.
EntryTypes == DataTypeCodes \cup {"ODT"}

\* The foreign keys of page_data: the commit of an entry fails with
\* IntegrityError when data_type has no row for its code or page has no row
\* for its page_id.
PageDataInsertFails(entry) ==
    entry.data_type_code \notin DataTypeCodes \/ entry.page_id \notin PageIds

page_data_retried_as_it_is(entry) == entry

\* page_data.data_type_code = "UNKNOWN" before the second session.add.
page_data_retried(entry) == [entry EXCEPT !.data_type_code = "UNKNOWN"]

\* save_page_data from entry k on: add and commit; on IntegrityError
\* rollback, add and commit again as UNKNOWN, outside any try.  inserts is
\* the record of the commits, rows the table.
RECURSIVE save_page_data_loop(_, _, _, _)
save_page_data_loop(rows, page_data_entries, k, inserts) ==
    IF k > Len(page_data_entries)
    THEN [rows |-> rows, inserts |-> inserts, raised |-> FALSE]
    ELSE LET entry == page_data_entries[k]
             again == page_data_retried(entry)
             first == Append(inserts,
                        [entry |-> k, data_type_code |-> entry.data_type_code,
                         failed |-> PageDataInsertFails(entry)])
             second == Append(first,
                        [entry |-> k, data_type_code |-> again.data_type_code,
                         failed |-> PageDataInsertFails(again)])
         IN IF ~PageDataInsertFails(entry)
            THEN save_page_data_loop(Append(rows, entry), page_data_entries,
                                     k + 1, first)
            ELSE IF PageDataInsertFails(again)
            THEN [rows |-> rows, inserts |-> second, raised |-> TRUE]
            ELSE save_page_data_loop(Append(rows, again), page_data_entries,
                                     k + 1, second)

\* save_page_data: the table after the call.
save_page_data(page_data_entries) ==
    save_page_data_loop(page_data, page_data_entries, 1, << >>).rows

(* -------------------- save_page_data (SpecData) ----------------------- *)

\* The lists crawl_url passes: at least one entry, each with the id of a
\* page row.
EntryLists ==
    UNION {[1..n -> [page_id : PageIds, data_type_code : EntryTypes]] :
              n \in 1..MaxLinks}

\* One save_page_data call; the table is kept small.
SavePageDataCall ==
    /\ Len(page_data) < MaxLinks
    /\ \E page_data_entries \in EntryLists :
        LET call == save_page_data_loop(page_data, page_data_entries, 1, << >>) IN
        /\ page_data' = save_page_data(page_data_entries)
        /\ data_call' = [entries |-> page_data_entries,
                         inserts |-> call.inserts, raised |-> call.raised]
    /\ UNCHANGED <<pages, sites, links, images, pop, popped, repopped, pc, frame,
                   robots, dns_failed, save, add_link, sitemaps_walked, walk,
                   push, canon>>

\* Any sequence of save_page_data calls for the seed pages, on an empty
\* page_data table.
InitData ==
    /\ pages = [i \in 1..NumSeeds |-> NewPage(i, None, "CRAWLING")]
    /\ sites = << >>
    /\ links = {}
    /\ page_data = << >>
    /\ images = << >>
    /\ pop = [w \in Workers |-> IdlePop]
    /\ popped = {}
    /\ repopped = {}
    /\ pc = "idle"
    /\ frame = NoFrame
    /\ robots = {}
    /\ dns_failed = {}
    /\ save = [w \in Workers |-> IdleSave]
    /\ add_link = NoLinkCall
    /\ InitCalls

NextData == SavePageDataCall

SpecData == InitData /\ [][NextData]_vars

(* --------------------- add_page_link (SpecLink) ----------------------- *)

\* One add_page_link call, for any two page ids; the table is kept small.
AddPageLinkCall ==
    /\ \E from_page_id \in Urls, to_page_id \in Urls :
        /\ LinkTaken(from_page_id, to_page_id) \/ Cardinality(links) <= MaxLinks
        /\ links' = add_page_link(to_page_id, from_page_id)
        /\ add_link' = [from_page |-> from_page_id, to_page |-> to_page_id,
                        added |-> ~LinkTaken(from_page_id, to_page_id),
                        raised |-> add_page_link_raises(to_page_id, from_page_id)]
    /\ UNCHANGED <<pages, sites, page_data, images, pop, popped, repopped, pc,
                   frame, robots, dns_failed, save,
                   sitemaps_walked, calls>>

\* Any sequence of add_page_link calls on an empty link table.
InitLink ==
    /\ pages = << >>
    /\ sites = << >>
    /\ links = {}
    /\ page_data = << >>
    /\ images = << >>
    /\ pop = [w \in Workers |-> IdlePop]
    /\ popped = {}
    /\ repopped = {}
    /\ pc = "idle"
    /\ frame = NoFrame
    /\ robots = {}
    /\ dns_failed = {}
    /\ save = [w \in Workers |-> IdleSave]
    /\ add_link = NoLinkCall
    /\ InitCalls

NextLink == AddPageLinkCall

SpecLink == InitLink /\ [][NextLink]_vars

(* ------------------ concurrent save_site (SpecSite) ------------------- *)

\* The netlocs save_site is called with.
Hosts == {UrlHost(u) : u \in Urls}

\* The site rows a session has flushed and not committed: no other session
\* sees them.
PendingSites(w) == IF save[w].pc = "flushed" THEN {save[w].site_id} ELSE {}

OthersPending(w) == UNION {PendingSites(v) : v \in Workers \ {w}}

\* select(Site).where(Site.domain == domain) as session w reads it.
VisibleSites(w, domain) == SitesWithDomain(domain) \ OthersPending(w)

\* The unique index on site.domain: an insert waits while another session
\* holds an uncommitted row of the same domain.
SiteInsertWaits(w) == SitesWithDomain(save[w].domain) \cap OthersPending(w) # {}

\* save_site is called: domain = domain.replace("www.", "").
SaveSiteCall(w) ==
    /\ save[w].pc = "call"
    /\ \E host \in Hosts :
        save' = [save EXCEPT ![w] = [IdleSave EXCEPT !.pc = "try",
                                                    !.domain = StripWww(host)]]
    /\ UNCHANGED <<db, pop, popped, repopped, pc, frame, robots, dns_failed, add_link,
                   sitemaps_walked, calls>>

\* session.add(site); flush(): the row is inserted, site_id = site.id.
SaveSiteFlush(w) ==
    /\ save[w].pc = "try"
    /\ SitesWithDomain(save[w].domain) = {}
    /\ sites' = Append(sites, [domain |-> save[w].domain])
    /\ save' = [save EXCEPT ![w].pc = "flushed", ![w].site_id = Len(sites) + 1]
    /\ UNCHANGED <<pages, links, page_data, images, pop, popped, repopped, pc, frame,
                   robots, dns_failed, add_link,
                   sitemaps_walked, calls>>

\* commit(); return site_id.
SaveSiteCommit(w) ==
    /\ save[w].pc = "flushed"
    /\ save' = [save EXCEPT ![w].pc = "ret", ![w].ret = save[w].site_id]
    /\ UNCHANGED <<db, pop, popped, repopped, pc, frame, robots, dns_failed, add_link,
                   sitemaps_walked, calls>>

\* flush() fails with IntegrityError: rollback().
SaveSiteIntegrityError(w) ==
    /\ save[w].pc = "try"
    /\ SitesWithDomain(save[w].domain) # {}
    /\ ~SiteInsertWaits(w)
    /\ save' = [save EXCEPT ![w].pc = "except"]
    /\ UNCHANGED <<db, pop, popped, repopped, pc, frame, robots, dns_failed, add_link,
                   sitemaps_walked, calls>>

\* select(Site).where(domain == domain).limit(1): site_id = site.id, which
\* raises AttributeError when the select finds no row.
SaveSiteSelect(w) ==
    /\ save[w].pc = "except"
    /\ IF VisibleSites(w, save[w].domain) = {}
       THEN save' = [save EXCEPT ![w].pc = "ret", ![w].raised = TRUE]
       ELSE \E i \in VisibleSites(w, save[w].domain) :
              save' = [save EXCEPT ![w].pc = "ret", ![w].site_id = i,
                                   ![w].ret = i]
    /\ UNCHANGED <<db, pop, popped, repopped, pc, frame, robots, dns_failed, add_link,
                   sitemaps_walked, calls>>

\* The caller has the result; the worker may call again.
SaveSiteReturn(w) ==
    /\ save[w].pc = "ret"
    /\ save' = [save EXCEPT ![w] = IdleSave]
    /\ UNCHANGED <<db, pop, popped, repopped, pc, frame, robots, dns_failed, add_link,
                   sitemaps_walked, calls>>

\* Workers that call save_site at any time, on an empty site table.
InitSite ==
    /\ pages = << >>
    /\ sites = << >>
    /\ links = {}
    /\ page_data = << >>
    /\ images = << >>
    /\ pop = [w \in Workers |-> IdlePop]
    /\ popped = {}
    /\ repopped = {}
    /\ pc = "idle"
    /\ frame = NoFrame
    /\ robots = {}
    /\ dns_failed = {}
    /\ save = [w \in Workers |-> IdleSave]
    /\ add_link = NoLinkCall
    /\ InitCalls

NextSite ==
    \/ \E w \in Workers : SaveSiteCall(w)
    \/ \E w \in Workers : SaveSiteFlush(w)
    \/ \E w \in Workers : SaveSiteCommit(w)
    \/ \E w \in Workers : SaveSiteIntegrityError(w)
    \/ \E w \in Workers : SaveSiteSelect(w)
    \/ \E w \in Workers : SaveSiteReturn(w)

SpecSite == InitSite /\ [][NextSite]_vars

(* ------------------------ canonicalize (SpecCanon) -------------------- *)

\* Empty tables and no call made yet: where SpecCanon and SpecPush start.
InitEmpty ==
    /\ pages = << >>
    /\ sites = << >>
    /\ links = {}
    /\ page_data = << >>
    /\ images = << >>
    /\ pop = [w \in Workers |-> IdlePop]
    /\ popped = {}
    /\ repopped = {}
    /\ pc = "idle"
    /\ frame = NoFrame
    /\ robots = {}
    /\ dns_failed = {}
    /\ save = [w \in Workers |-> IdleSave]
    /\ add_link = NoLinkCall
    /\ InitCalls

\* In SpecCanon a URL is a string: a sequence of tokens, each one character
\* or one run of characters that are neither "/", ".", "?", "#" nor "%".
\* "%3F" is the percent-encoded question mark.
UrlChars == {"/", ".", "a", "?", "#", "%3F"}

\* Scheme and host of every URL of SpecCanon.
Origin == <<"https:", "/", "/", "gov", ".", "si">>

\* Longest path, query and fragment of an input, in tokens.
MaxTail == 4

\* The inputs: the origin followed by nothing, a path, a query or a fragment.
RawUrls ==
    {Origin \o t : t \in {x \in UNION {[1..k -> UrlChars] : k \in 0..MaxTail} :
                              Len(x) > 0 => x[1] \in {"/", "?", "#"}}}

\* The index of the first token of s that is one of marks, Len(s) + 1 if
\* there is none.
First(s, marks) ==
    IF \E i \in DOMAIN s : s[i] \in marks
    THEN CHOOSE i \in DOMAIN s : s[i] \in marks /\ \A j \in 1..(i - 1) : s[j] \notin marks
    ELSE Len(s) + 1

\* path.split("/")
RECURSIVE split(_)
split(path) ==
    LET k == First(path, {"/"}) IN
    IF k > Len(path) THEN <<path>>
    ELSE <<SubSeq(path, 1, k - 1)>> \o split(SubSeq(path, k + 1, Len(path)))

\* "/".join(output)
RECURSIVE join(_)
join(output) ==
    IF Len(output) = 0 THEN << >>
    ELSE IF Len(output) = 1 THEN output[1]
    ELSE output[1] \o <<"/">> \o join(Tail(output))

\* url_normalize's loop over the parts of the path: "." is dropped, ".."
\* drops the part before it, an empty part is kept only in front.
RECURSIVE dot_segments_removed(_, _, _)
dot_segments_removed(parts, i, output) ==
    IF i > Len(parts) THEN output
    ELSE LET part == parts[i] IN
         dot_segments_removed(parts, i + 1,
            IF part = << >> THEN (IF Len(output) = 0 THEN <<part>> ELSE output)
            ELSE IF part = <<".">> THEN output
            ELSE IF part = <<".", ".">>
                 THEN (IF Len(output) > 1 THEN SubSeq(output, 1, Len(output) - 1)
                                          ELSE output)
            ELSE Append(output, part))

\* url_normalize's normalize_path: quote(unquote(path), "~:/?#[]@!$&'()*+,;=")
\* ("?" is a safe character, so an encoded question mark comes back as a
\* plain one), remove the dot segments, keep a trailing slash when the last
\* part was "", "." or "..", "/" for no path.
normalize_path(path) ==
    LET requoted == [i \in DOMAIN path |-> IF path[i] = "%3F" THEN "?" ELSE path[i]]
        parts  == split(requoted)
        output == dot_segments_removed(parts, 1, << >>)
        last   == parts[Len(parts)]
        joined == join(IF last \in {<< >>, <<".">>, <<".", ".">>}
                       THEN Append(output, << >>) ELSE output)
    IN IF joined = << >> THEN <<"/">> ELSE joined

\* url_normalize(url): the URL is split into scheme, host, path, query and
\* fragment, the path is normalised and the parts are put together again.
\* (Query and fragment are rewritten too; canonicalize cuts them off whole
\* in its next two steps, whatever they hold.)
url_normalize(url) ==
    LET rest == SubSeq(url, Len(Origin) + 1, Len(url))
        k    == First(rest, {"?", "#"})
    IN Origin \o normalize_path(SubSeq(rest, 1, k - 1)) \o SubSeq(rest, k, Len(rest))

\* url_query_cleaner(u) with no parameter to keep: urldefrag drops the
\* fragment, then everything from the first "?" goes.
url_query_cleaner(u) ==
    LET defragged == SubSeq(u, 1, First(u, {"#"}) - 1)
    IN SubSeq(defragged, 1, First(defragged, {"?"}) - 1)

\* has_file_extension: the pattern ^.*\/[^\/]+\.[^\/]+$ : after the last
\* "/" come a character, later a ".", and a character after it.
has_file_extension(url) ==
    \E i \in DOMAIN url :
        /\ url[i] = "/"
        /\ \A j \in (i + 1)..Len(url) : url[j] # "/"
        /\ \E j \in (i + 2)..(Len(url) - 1) : url[j] = "."

\* canonicalize: for every URL url_normalize, url_query_cleaner,
\* re.sub(r"#.*$", "", u), and a "/" at the end unless the URL has a file
\* extension or ends with "/" already.
canonicalize(urls) ==
    {LET cleaned == url_query_cleaner(url_normalize(url))
         u       == SubSeq(cleaned, 1, First(cleaned, {"#"}) - 1)
     IN IF ~(has_file_extension(u) \/ u[Len(u)] = "/") THEN Append(u, "/") ELSE u
       : url \in urls}

\* One call canonicalize({url}), and canonicalize of what it returned.
CanonCall ==
    /\ canon = NoCanon
    /\ \E url \in RawUrls :
        canon' = [url   |-> url,
                  once  |-> canonicalize({url}),
                  twice |-> canonicalize(canonicalize({url}))]
    /\ UNCHANGED <<db, pop, popped, repopped, pc, frame, robots, dns_failed, save,
                   add_link, sitemaps_walked, walk, push, data_call>>

NextCanon == CanonCall

SpecCanon == InitEmpty /\ [][NextCanon]_vars

(* ------- concurrent add_to_frontier / create_new_page (SpecPush) ------ *)

\* The page rows a session has flushed and not committed: no other session
\* sees them.
PendingPages(w) == IF push[w].pc = "flushed" THEN {push[w].page_id} ELSE {}

\* The unique index on page.url: an insert waits while another session holds
\* an uncommitted row of the same URL.
PageInsertWaits(w) ==
    \E v \in Workers \ {w} : PagesWithUrl(push[w].url) \cap PendingPages(v) # {}

\* One worker calls add_to_frontier(link) or create_new_page(url, site_id);
\* every worker makes one call, at any time.
PushCall(w) ==
    /\ push[w].pc = "call"
    /\ \E op \in {"add_to_frontier", "create_new_page"}, url \in Urls :
        push' = [push EXCEPT ![w] = [IdlePush EXCEPT !.pc = "try", !.op = op,
                                                    !.url = url]]
    /\ UNCHANGED <<db, pop, popped, repopped, pc, frame, robots, dns_failed, save,
                   add_link, sitemaps_walked, walk, data_call, canon>>

\* session.add(page); flush(): the row is inserted, page_id = page.id.
PushFlush(w) ==
    /\ push[w].pc = "try"
    /\ ~UrlTaken(push[w].url)
    /\ pages' = Append(pages, NewPage(push[w].url, None, "FRONTIER"))
    /\ push' = [push EXCEPT ![w].pc = "flushed", ![w].page_id = Len(pages) + 1]
    /\ UNCHANGED <<sites, links, page_data, images, pop, popped, repopped, pc,
                   frame, robots, dns_failed, save, add_link, sitemaps_walked,
                   walk, data_call, canon>>

\* commit(); return page_id.
PushCommit(w) ==
    /\ push[w].pc = "flushed"
    /\ push' = [push EXCEPT ![w].pc = "ret", ![w].ret = push[w].page_id]
    /\ UNCHANGED <<db, pop, popped, repopped, pc, frame, robots, dns_failed, save,
                   add_link, sitemaps_walked, walk, data_call, canon>>

PushIntegrityErrorSelects(w) ==
    /\ push[w].pc = "try"
    /\ UrlTaken(push[w].url)
    /\ ~PageInsertWaits(w)
    /\ push' = [push EXCEPT ![w].pc = "except"]
    /\ UNCHANGED <<db, pop, popped, repopped, pc, frame, robots, dns_failed, save,
                   add_link, sitemaps_walked, walk, data_call, canon>>

\* flush() fails with IntegrityError: rollback(); add_to_frontier returns
\* None, create_new_page goes on to read the row.
PushIntegrityError(w) ==
    /\ push[w].pc = "try"
    /\ UrlTaken(push[w].url)
    /\ ~PageInsertWaits(w)
    /\ push' = [push EXCEPT ![w].pc = IF push[w].op = "add_to_frontier"
                                      THEN "ret" ELSE "except"]
    /\ UNCHANGED <<db, pop, popped, repopped, pc, frame, robots, dns_failed, save,
                   add_link, sitemaps_walked, walk, data_call, canon>>

\* create_new_page: select(Page).where(Page.url == url).limit(1);
\* page_id = page.id, which raises AttributeError when there is no row.
PushSelect(w) ==
    /\ push[w].pc = "except"
    /\ LET visible == PagesWithUrl(push[w].url)
                         \ UNION {PendingPages(v) : v \in Workers \ {w}} IN
       IF visible = {}
       THEN push' = [push EXCEPT ![w].pc = "ret", ![w].raised = TRUE]
       ELSE \E i \in visible : push' = [push EXCEPT ![w].pc = "ret", ![w].ret = i]
    /\ UNCHANGED <<db, pop, popped, repopped, pc, frame, robots, dns_failed, save,
                   add_link, sitemaps_walked, walk, data_call, canon>>

NextPush ==
    \/ \E w \in Workers : PushCall(w)
    \/ \E w \in Workers : PushFlush(w)
    \/ \E w \in Workers : PushCommit(w)
    \/ \E w \in Workers : PushIntegrityError(w)
    \/ \E w \in Workers : PushSelect(w)

SpecPush == InitEmpty /\ [][NextPush]_vars

(* ------------------- start_spider and crawl_url ----------------------- *)

\* start_spider: the loop test on the result of pop_frontier, and the call
\* of crawl_url with its first statements (urlparse, netloc).
SpiderTake ==
    /\ pc = "pop"
    /\ pop[Spider].pc = "ret"
    /\ IF pop[Spider].ret = Nothing
       THEN /\ pc' = "done"
            /\ UNCHANGED <<pop, frame>>
       ELSE /\ pc' = "dns"
            /\ pop' = [pop EXCEPT ![Spider] = IdlePop]
            /\ frame' = [NoFrame EXCEPT !.frontier_id = pop[Spider].ret[1],
                                        !.page_id = pop[Spider].ret[1],
                                        !.current_url = pop[Spider].ret[2],
                                        !.domain = UrlHost(pop[Spider].ret[2])]
    /\ UNCHANGED <<db, popped, repopped, others>>

CrawlDnsMarksFailed ==
    /\ pc = "dns"
    /\ \E ip \in BOOLEAN :
        IF ip THEN pc' = "site" /\ UNCHANGED <<frame, dns_failed, pages>>
        ELSE /\ pc' = "pop"
             /\ frame' = NoFrame
             /\ dns_failed' = dns_failed \cup {frame.frontier_id}
             /\ pages' = mark_page_as_failed(frame.frontier_id, None)
    /\ UNCHANGED <<sites, links, page_data, images, pop, popped, repopped,
                   robots, save, add_link,
                   sitemaps_walked, calls>>

\* get_site_ip: with no address crawl_url returns at once.
CrawlDns ==
    /\ pc = "dns"
    /\ \E ip \in BOOLEAN :
        IF ip THEN pc' = "site" /\ UNCHANGED <<frame, dns_failed>>
        ELSE /\ pc' = "pop"
             /\ frame' = NoFrame
             /\ dns_failed' = dns_failed \cup {frame.frontier_id}
    /\ UNCHANGED <<db, pop, popped, repopped, robots, save, add_link,
                   sitemaps_walked, calls>>

\* get_site, and save_site for a domain without a row.
CrawlSite ==
    /\ pc = "site"
    /\ IF get_site(frame.domain) # None
       THEN /\ frame' = [frame EXCEPT !.site_id = get_site(frame.domain),
                                      !.domain = sites[get_site(frame.domain)].domain,
                                      !.sitemap_urls = {}]
            /\ pc' = "fetch"
            /\ UNCHANGED sites
       ELSE /\ sites' = save_site_rows(frame.domain)
            /\ frame' = [frame EXCEPT !.site_id = save_site_id(frame.domain)]
            /\ pc' = "sitemap"
    /\ UNCHANGED <<pages, links, page_data, images, pop, popped, repopped, others>>

\* find_sitemap_links: the leaf URLs of the sitemap tree, canonical, filtered
\* by is_url_allowed and is_domain_allowed; or an exception of the walk, which
\* leaves crawl_url.
CrawlSitemap ==
    /\ pc = "sitemap"
    /\ \/ \E raw \in LinkSets :
            /\ frame' = [frame EXCEPT
                   !.sitemap_urls = find_sitemap_links(raw),
                   !.requests = Append(refresh_site_available_time(@, frame.domain),
                                       <<"sitemap", UrlHost(frame.current_url)>>)]
            /\ pc' = "fetch"
       \/ /\ pc' = "spider_except"
          /\ UNCHANGED frame
    /\ sitemaps_walked' = Append(sitemaps_walked, frame.domain)
    /\ UNCHANGED <<db, pop, popped, repopped, robots, dns_failed, save, add_link,
                   calls>>

\* get_page up to page.goto, and the redirect test when it returns.  After
\* the gate page.goto answers with html, or raises: on the aborted load
\* get_page goes on to the raw download, any other exception is raised again
\* and lands in crawl_url's handler.  url is the canonical form of the
\* browser's URL.
CrawlFetch ==
    /\ pc = "fetch"
    /\ LET gated == Append(refresh_site_available_time(frame.requests, frame.domain),
                           <<"goto", UrlHost(frame.current_url)>>) IN
       \/ \E url \in Urls, html \in Bodies, status \in HttpStatuses :
            /\ frame' = [frame EXCEPT !.url = url, !.html = html,
                                      !.status = status, !.requests = gated]
            /\ pc' = IF frame.current_url # url THEN "redirect" ELSE "classify"
       \/ \E e \in NavigationErrors :
            /\ frame' = [frame EXCEPT !.error = e, !.requests = gated]
            /\ pc' = IF e = "net::ERR_ABORTED" THEN "download" ELSE "except"
    /\ UNCHANGED <<db, pop, popped, repopped, others>>

CrawlDownloadUngated ==
    /\ pc = "download"
    /\ LET gated == Append(frame.requests,
                           <<"download", UrlHost(frame.current_url)>>) IN
       \/ \E url \in Urls, data_type \in DataTypes :
            /\ frame' = [frame EXCEPT !.url = url, !.data_type = data_type,
                                      !.status = DownloadStatus,
                                      !.download = "returned",
                                      !.requests = gated]
            /\ pc' = IF frame.current_url # url THEN "redirect" ELSE "classify"
       \/ \E failure \in DownloadFailures :
            /\ frame' = [frame EXCEPT !.download = failure, !.requests = gated]
            /\ pc' = "except"
    /\ UNCHANGED <<db, pop, popped, repopped, others>>

CrawlDownloadAgain ==
    /\ pc = "download"
    /\ LET gated == Append(refresh_site_available_time(frame.requests, frame.domain),
                           <<"download", UrlHost(frame.current_url)>>) IN
       \/ \E url \in Urls, data_type \in DataTypes :
            /\ frame' = [frame EXCEPT !.url = url, !.data_type = data_type,
                                      !.status = DownloadStatus,
                                      !.download = "returned",
                                      !.requests = gated]
            /\ pc' = IF frame.current_url # url THEN "redirect" ELSE "classify"
       \/ \E failure \in DownloadFailures :
            /\ frame' = [frame EXCEPT !.download = failure, !.requests = gated]
            /\ pc' = IF frame.download = NoneStr THEN "download" ELSE "except"
    /\ UNCHANGED <<db, pop, popped, repopped, others>>

\* get_page after net::ERR_ABORTED: past the gate, requests.get.  With
\* status 200 and a content type that is not HTML get_page returns the
\* browser's URL and the data type.  When requests.get raises, the status is
\* not 200 or the type is HTML, get_page returns nothing and the unpacking of
\* its result raises in crawl_url.
CrawlDownload ==
    /\ pc = "download"
    /\ LET gated == Append(refresh_site_available_time(frame.requests, frame.domain),
                           <<"download", UrlHost(frame.current_url)>>) IN
       \/ \E url \in Urls, data_type \in DataTypes :
            /\ frame' = [frame EXCEPT !.url = url, !.data_type = data_type,
                                      !.status = DownloadStatus,
                                      !.download = "returned",
                                      !.requests = gated]
            /\ pc' = IF frame.current_url # url THEN "redirect" ELSE "classify"
       \/ \E failure \in DownloadFailures :
            /\ frame' = [frame EXCEPT !.download = failure, !.requests = gated]
            /\ pc' = "except"
    /\ UNCHANGED <<db, pop, popped, repopped, others>>

\* update_page_redirect on the popped page.
CrawlRedirectUpdate ==
    /\ pc = "redirect"
    /\ pages' = update_page_redirect(frame.page_id, frame.site_id)
    /\ pc' = "redirect_create"
    /\ UNCHANGED <<sites, links, page_data, images, pop, popped, repopped, frame, others>>

\* create_new_page for the landing URL.
CrawlRedirectCreate ==
    /\ pc = "redirect_create"
    /\ pages' = create_new_page_rows(frame.url, frame.site_id, "FRONTIER")
    /\ frame' = [frame EXCEPT !.new_page_id = create_new_page_id(frame.url)]
    /\ pc' = "redirect_link"
    /\ UNCHANGED <<sites, links, page_data, images, pop, popped, repopped, others>>

CrawlRedirectLinkNoRebind ==
    /\ pc = "redirect_link"
    /\ links' = add_page_link(frame.new_page_id, frame.page_id)
    /\ pc' = "classify"
    /\ UNCHANGED <<pages, sites, page_data, images, pop, popped, repopped, frame, others>>

\* add_page_link old -> new; page_id = new_page_id.  (add_page_link keeps
\* its IntegrityError to itself, so the steps that call it have no raising
\* branch.)
CrawlRedirectLink ==
    /\ pc = "redirect_link"
    /\ links' = add_page_link(frame.new_page_id, frame.page_id)
    /\ frame' = [frame EXCEPT !.page_id = frame.new_page_id]
    /\ pc' = "classify"
    /\ UNCHANGED <<pages, sites, page_data, images, pop, popped, repopped, others>>

CrawlDuplicateParsing ==
    /\ pc = "classify"
    /\ frame.html # None
    /\ \E page_collision \in check_pages_hash_collision(Sha256(frame.html)) :
        /\ page_collision # Nothing
        /\ pages' = update_page(frame.page_id, frame.status, page_collision[2],
                                None, None, "DUPLICATE")
        /\ \E raw \in LinkSets :
            frame' = [frame EXCEPT !.original = page_collision,
                                   !.page_urls = find_links(raw)]
    /\ pc' = "duplicate_link"
    /\ UNCHANGED <<sites, links, page_data, images, pop, popped, repopped, others>>

\* html with a hash some row stores: update_page(..., "DUPLICATE").
CrawlDuplicate ==
    /\ pc = "classify"
    /\ frame.html # None
    /\ \E page_collision \in check_pages_hash_collision(Sha256(frame.html)) :
        /\ page_collision # Nothing
        /\ pages' = update_page(frame.page_id, frame.status, page_collision[2],
                                None, None, "DUPLICATE")
        /\ frame' = [frame EXCEPT !.original = page_collision]
    /\ pc' = "duplicate_link"
    /\ UNCHANGED <<sites, links, page_data, images, pop, popped, repopped, others>>

\* add_page_link duplicate -> original.
CrawlDuplicateLink ==
    /\ pc = "duplicate_link"
    /\ links' = add_page_link(frame.original[1], frame.page_id)
    /\ pc' = "combine"
    /\ UNCHANGED <<pages, sites, page_data, images, pop, popped, repopped, frame, others>>

\* extract_binary_links: urls_to_remove are the URLs with a binary suffix; the
\* result is the URLs without one, and one PageData per URL with one.
extract_binary_links_removed(urls) == {u \in urls : check_if_binary(u) # NoneStr}

extract_binary_links_urls(urls) == urls \ extract_binary_links_removed(urls)

RECURSIVE SetToSeq(_)
SetToSeq(s) ==
    IF s = {} THEN << >>
    ELSE LET x == CHOOSE y \in s : \A z \in s : y <= z
         IN <<x>> \o SetToSeq(s \ {x})

extract_binary_links_entries(urls) ==
    LET bin == SetToSeq(extract_binary_links_removed(urls))
    IN [i \in DOMAIN bin |-> [page_id |-> None, data_type_code |-> check_if_binary(bin[i])]]

CrawlParseLate ==
    /\ pc = "classify"
    /\ frame.html # None
    /\ Nothing \in check_pages_hash_collision(Sha256(frame.html))
    /\ \E raw \in LinkSets :
            LET found == find_links(raw) IN
            /\ frame' = [frame EXCEPT
                   !.page_urls = extract_binary_links_urls(found),
                   !.urls_to_remove = extract_binary_links_removed(found),
                   !.page_data_entries = extract_binary_links_entries(found)]
            /\ pc' \in {"save_page", "except"}
    /\ UNCHANGED <<db, pop, popped, repopped, others>>

\* html with a new hash: find_links (filtered by is_url_allowed and
\* is_domain_allowed, canonical) and extract_binary_links; or the parsing
\* raises.
CrawlParse ==
    /\ pc = "classify"
    /\ frame.html # None
    /\ Nothing \in check_pages_hash_collision(Sha256(frame.html))
    /\ \/ \E raw \in LinkSets :
            LET found == find_links(raw) IN
            /\ frame' = [frame EXCEPT
                   !.page_urls = extract_binary_links_urls(found),
                   !.urls_to_remove = extract_binary_links_removed(found),
                   !.page_data_entries = extract_binary_links_entries(found)]
            /\ pc' = "save_page"
       \/ /\ pc' = "except"
          /\ UNCHANGED frame
    /\ UNCHANGED <<db, pop, popped, repopped, others>>

\* update_page(html, hash) with the default state HTML.
CrawlSavePage ==
    /\ pc = "save_page"
    /\ pages' = update_page(frame.page_id, frame.status, frame.site_id,
                            frame.html, Sha256(frame.html), "HTML")
    /\ pc' = IF Len(find_images(frame.html)) > 0 THEN "save_images"
             ELSE "save_page_data"
    /\ UNCHANGED <<sites, links, page_data, images, pop, popped, repopped, frame, others>>

\* image.page_id = page_id and save_images, when the page has images.
CrawlSaveImages ==
    /\ pc = "save_images"
    /\ images' = save_images(
           [i \in DOMAIN find_images(frame.html) |->
               [find_images(frame.html)[i] EXCEPT !.page_id = frame.page_id]])
    /\ pc' = "save_page_data"
    /\ UNCHANGED <<pages, sites, links, page_data, pop, popped, repopped, frame,
                   others>>

\* page_data.page_id = page_id and save_page_data, when there are entries.
CrawlSavePageData ==
    /\ pc = "save_page_data"
    /\ page_data' = save_page_data(
           [i \in DOMAIN frame.page_data_entries |->
               [frame.page_data_entries[i] EXCEPT !.page_id = frame.page_id]])
    /\ pc' = "combine"
    /\ UNCHANGED <<pages, sites, links, images, pop, popped, repopped, frame, others>>

\* no html but a data type: update_page(..., "BINARY").
CrawlBinary ==
    /\ pc = "classify"
    /\ frame.html = None
    /\ frame.data_type # NoneStr
    /\ pages' = update_page(frame.page_id, frame.status, frame.site_id,
                            None, None, "BINARY")
    /\ pc' = "binary_data"
    /\ UNCHANGED <<sites, links, page_data, images, pop, popped, repopped, frame, others>>

\* save_page_data([PageData(page_id, data_type)]).
CrawlBinaryData ==
    /\ pc = "binary_data"
    /\ page_data' = save_page_data(
           <<[page_id |-> frame.page_id, data_type_code |-> frame.data_type]>>)
    /\ pc' = "combine"
    /\ UNCHANGED <<pages, sites, links, images, pop, popped, repopped, frame, others>>

\* except Exception: mark_page_as_failed(page_id, site_id).
CrawlExcept ==
    /\ pc = "except"
    /\ pages' = mark_page_as_failed(frame.page_id, frame.site_id)
    /\ pc' = "combine"
    /\ UNCHANGED <<sites, links, page_data, images, pop, popped, repopped, frame, others>>

\* new_links = page_urls.union(sitemap_urls).  The result of the fetch (url,
\* html, data_type, status, page_data_entries) is not read after this line and
\* is dropped from the frame here, with the record of the requests.
CrawlCombine ==
    /\ pc = "combine"
    /\ frame' = [frame EXCEPT !.new_links = frame.page_urls \cup frame.sitemap_urls,
                              !.url = None, !.html = None, !.status = None,
                              !.data_type = NoneStr,
                              !.page_data_entries = << >>,
                              !.requests = << >>,
                              !.error = NoneStr, !.download = NoneStr]
    /\ pc' = "links"
    /\ UNCHANGED <<db, pop, popped, repopped, others>>

CrawlAddToFrontierAlwaysLinked ==
    /\ pc = "links"
    /\ \E link \in frame.new_links :
        /\ pages' = add_to_frontier_rows(link)
        /\ frame' = [frame EXCEPT !.link = link,
                                  !.link_id = add_to_frontier_id(link),
                                  !.new_links = frame.new_links \ {link}]
        /\ pc' = "link_edge"
    /\ UNCHANGED <<sites, links, page_data, images, pop, popped, repopped, others>>

\* for link in new_links: link_id = add_to_frontier(link)
CrawlAddToFrontier ==
    /\ pc = "links"
    /\ \E link \in frame.new_links :
        /\ pages' = add_to_frontier_rows(link)
        /\ frame' = [frame EXCEPT !.link = link,
                                  !.link_id = add_to_frontier_id(link),
                                  !.new_links = frame.new_links \ {link}]
        /\ pc' = IF add_to_frontier_id(link) # None THEN "link_edge" ELSE "links"
    /\ UNCHANGED <<sites, links, page_data, images, pop, popped, repopped, others>>

\* if link_id is not None: add_page_link(link_id, page_id)
CrawlAddPageLink ==
    /\ pc = "link_edge"
    /\ links' = add_page_link(frame.link_id, frame.page_id)
    /\ pc' = "links"
    /\ UNCHANGED <<pages, sites, page_data, images, pop, popped, repopped, frame, others>>

\* the loop over new_links is over: crawl_url returns.
CrawlReturn ==
    /\ pc = "links"
    /\ frame.new_links = {}
    /\ pc' = "pop"
    /\ frame' = NoFrame
    /\ UNCHANGED <<db, pop, popped, repopped, others>>

SpiderExceptEnds ==
    /\ pc = "spider_except"
    /\ pages' = mark_page_as_failed(frame.frontier_id, None)
    /\ pc' = "done"
    /\ frame' = NoFrame
    /\ UNCHANGED <<sites, links, page_data, images, pop, popped, repopped, others>>

\* start_spider's except: mark_page_as_failed(frontier_id).
SpiderExcept ==
    /\ pc = "spider_except"
    /\ pages' = mark_page_as_failed(frame.frontier_id, None)
    /\ pc' = "pop"
    /\ frame' = NoFrame
    /\ UNCHANGED <<sites, links, page_data, images, pop, popped, repopped, others>>

\* The spider's own pop_frontier calls.
SpiderPopSelect == pc = "pop" /\ PopSelect(Spider)
SpiderPopCommit == pc = "pop" /\ PopCommit(Spider)
SpiderPopEmpty == pc = "pop" /\ PopEmpty(Spider)

\* seed_default: the seed pages, all FRONTIER; the robots policy has no
\* Disallow rule.
Init ==
    /\ pages = [i \in 1..NumSeeds |-> NewPage(i, None, "FRONTIER")]
    /\ sites = << >>
    /\ links = {}
    /\ page_data = << >>
    /\ images = << >>
    /\ pop = [w \in Workers |-> IdlePop]
    /\ popped = {}
    /\ repopped = {}
    /\ pc = "pop"
    /\ frame = NoFrame
    /\ robots = {}
    /\ dns_failed = {}
    /\ save = [w \in Workers |-> IdleSave]
    /\ add_link = NoLinkCall
    /\ InitCalls

Next ==
    \/ SpiderPopSelect \/ SpiderPopCommit \/ SpiderPopEmpty \/ SpiderTake
    \/ CrawlDns \/ CrawlSite \/ CrawlSitemap \/ CrawlFetch \/ CrawlDownload
    \/ CrawlRedirectUpdate \/ CrawlRedirectCreate \/ CrawlRedirectLink
    \/ CrawlDuplicate \/ CrawlDuplicateLink
    \/ CrawlParse \/ CrawlSavePage \/ CrawlSaveImages \/ CrawlSavePageData
    \/ CrawlBinary \/ CrawlBinaryData
    \/ CrawlExcept \/ CrawlCombine
    \/ CrawlAddToFrontier \/ CrawlAddPageLink \/ CrawlReturn
    \/ SpiderExcept

Spec == Init /\ [][Next]_vars

\* start_spider is one coroutine that is awaited to its end: whenever it has
\* a next step it takes one.
FairSpec == Spec /\ WF_vars(Next)

\* The robots policies SpecRobots starts from: one that disallows a single
\* URL, and the one of a RobotFileParser that never read a robots.txt
\* (can_fetch answers False for every URL).
RobotsPolicies == {{NumSeeds + 1}, Urls}

\* The crawl of Spec under a robot_file_parser that disallows some URLs.
InitRobots ==
    /\ pages = [i \in 1..NumSeeds |-> NewPage(i, None, "FRONTIER")]
    /\ sites = << >>
    /\ links = {}
    /\ page_data = << >>
    /\ images = << >>
    /\ pop = [w \in Workers |-> IdlePop]
    /\ popped = {}
    /\ repopped = {}
    /\ pc = "pop"
    /\ frame = NoFrame
    /\ robots \in RobotsPolicies
    /\ dns_failed = {}
    /\ save = [w \in Workers |-> IdleSave]
    /\ add_link = NoLinkCall
    /\ InitCalls

SpecRobots == InitRobots /\ [][Next]_vars

(* ------------- the requests of one page (SpecFetch) ------------------- *)

\* The <loc> texts that name a nested sitemap.
SitemapUrls == {NumUrls + 1}

\* url.endswith(".xml") or "sitemap.xml" in url
is_sitemap_loc(url) == url \in SitemapUrls

\* The sitemap find_sitemap_links starts from: /sitemap.xml of the host.
RootSitemap == NumUrls + 2

\* Deepest nesting of get_sitemap_urls calls the model follows.
MaxDepth == 3

\* The <loc> texts of one sitemap document, in document order.  The root
\* may name pages and nested sitemaps; a nested sitemap names pages, or it is
\* an index that names a nested sitemap: itself, there being one.
Documents(nested) ==
    UNION {[1..n -> IF nested THEN Urls ELSE Urls \cup SitemapUrls] :
              n \in 0..MaxLinks}
        \cup (IF nested THEN {<<u>> : u \in SitemapUrls} ELSE {})

\* How the fetch of a sitemap document fails: requests.get raises, the
\* status is not 200, or BeautifulSoup raises on the content.
SitemapFailures == {"raised", "status", "malformed"}

\* The leaf URLs among the <loc> texts of a document.
Leaves(locs) == {locs[k] : k \in {j \in DOMAIN locs : ~is_sitemap_loc(locs[j])}}

\* A get_sitemap_urls call that has not passed the gate yet; new_urls is None
\* until the document is parsed.
WalkFrame == [pc |-> "gate", url |-> RootSitemap, locs |-> << >>, new_urls |-> {}]

\* return of the running get_sitemap_urls call: to find_sitemap_links, or to
\* the calling get_sitemap_urls, which updates its new_urls with the result.
walk_return(result) ==
    LET n == Len(walk.stack) IN
    IF n = 1
    THEN [walk EXCEPT !.pc = "done", !.stack = << >>, !.ret = result]
    ELSE [walk EXCEPT !.stack =
             [k \in 1..(n - 1) |->
                 IF k = n - 1
                 THEN [walk.stack[k] EXCEPT !.new_urls = @ \cup result]
                 ELSE walk.stack[k]]]

get_sitemap_urls_failed_raises ==
    [walk EXCEPT !.pc = "done", !.stack = << >>, !.ret = {}, !.raised = TRUE]

\* return new_urls if new_urls is not None else set(): new_urls is the
\* parameter nobody passes, so the failing call returns the empty set.
get_sitemap_urls_failed == walk_return({})

\* find_sitemap_links calls get_sitemap_urls for /sitemap.xml of the host
\* (robot_file_parser.site_maps() is None).
WalkCall ==
    /\ pc = "sitemap"
    /\ walk.pc = "idle"
    /\ walk' = [NoWalk EXCEPT !.pc = "run", !.stack = <<WalkFrame>>]
    /\ sitemaps_walked' = Append(sitemaps_walked, frame.domain)
    /\ UNCHANGED <<db, pop, popped, repopped, pc, frame, robots, dns_failed, save,
                   add_link, push, data_call, canon>>

\* get_sitemap_urls: the gate, requests.get and the parsing.  The document
\* is fetched and parsed, or the call returns at once.
WalkRequest ==
    /\ walk.pc = "run"
    /\ LET n == Len(walk.stack) IN
       /\ walk.stack[n].pc = "gate"
       /\ frame' = [frame EXCEPT !.requests =
               Append(refresh_site_available_time(@, frame.domain),
                      <<"sitemap", UrlHost(frame.current_url)>>)]
       /\ \/ \E locs \in Documents(n > 1) :
               walk' = [walk EXCEPT
                   !.stack[n] = [@ EXCEPT !.pc = "locs", !.locs = locs],
                   !.fetched = @ \cup Leaves(locs)]
          \/ \E failure \in SitemapFailures :
               walk' = [get_sitemap_urls_failed EXCEPT
                           !.failures = @ \cup {failure}]
    /\ UNCHANGED <<db, pop, popped, repopped, pc, robots, dns_failed, save,
                   add_link, sitemaps_walked, push, data_call, canon>>

\* for loc in xml.find_all("loc"): a nested sitemap is walked by a call of
\* its own, whatever calls are under way (the model follows the calls down
\* to MaxDepth); any other URL is added to new_urls.
WalkLoc ==
    /\ walk.pc = "run"
    /\ LET n == Len(walk.stack)
           top == walk.stack[n] IN
       /\ top.pc = "locs"
       /\ top.locs # << >>
       /\ IF is_sitemap_loc(Head(top.locs))
          THEN /\ n < MaxDepth
               /\ walk' = [walk EXCEPT
                   !.stack = Append([@ EXCEPT ![n].locs = Tail(top.locs)],
                                    [WalkFrame EXCEPT !.url = Head(top.locs)])]
          ELSE walk' = [walk EXCEPT
                   !.stack[n].locs = Tail(top.locs),
                   !.stack[n].new_urls = @ \cup {Head(top.locs)}]
    /\ UNCHANGED <<db, pop, popped, repopped, pc, frame, robots, dns_failed, save,
                   add_link, sitemaps_walked, push, data_call, canon>>

\* The loop is over: return new_urls.
WalkEnd ==
    /\ walk.pc = "run"
    /\ LET n == Len(walk.stack) IN
       /\ walk.stack[n].pc = "locs"
       /\ walk.stack[n].locs = << >>
       /\ walk' = walk_return(walk.stack[n].new_urls)
    /\ UNCHANGED <<db, pop, popped, repopped, pc, frame, robots, dns_failed, save,
                   add_link, sitemaps_walked, push, data_call, canon>>

\* find_sitemap_links after the walk: canonicalize and the two filters.
WalkDone ==
    /\ pc = "sitemap"
    /\ walk.pc = "done"
    /\ frame' = [frame EXCEPT !.sitemap_urls = find_sitemap_links(walk.ret)]
    /\ pc' = "fetch"
    /\ walk' = NoWalk
    /\ UNCHANGED <<db, pop, popped, repopped, robots, dns_failed, save,
                   add_link, sitemaps_walked, push, data_call, canon>>

\* crawl_url past get_site: a popped page of an allowed host, its site row
\* saved just now (the sitemap walk is next) or found (the fetch is next, and
\* domain is the one of the site row).
InitFetch ==
    /\ \E u \in {v \in Urls : is_domain_allowed(v)}, found \in BOOLEAN :
        /\ pages = <<NewPage(u, None, "CRAWLING")>>
        /\ sites = <<[domain |-> StripWww(UrlHost(u))]>>
        /\ pc = IF found THEN "fetch" ELSE "sitemap"
        /\ frame = [NoFrame EXCEPT
               !.frontier_id = 1, !.page_id = 1, !.current_url = u,
               !.site_id = 1,
               !.domain = IF found THEN StripWww(UrlHost(u)) ELSE UrlHost(u)]
    /\ links = {}
    /\ page_data = << >>
    /\ images = << >>
    /\ pop = [w \in Workers |-> IdlePop]
    /\ popped = {1}
    /\ repopped = {}
    /\ robots = {}
    /\ dns_failed = {}
    /\ save = [w \in Workers |-> IdleSave]
    /\ add_link = NoLinkCall
    /\ InitCalls

NextFetch ==
    \/ WalkCall \/ WalkRequest \/ WalkLoc \/ WalkEnd \/ WalkDone
    \/ CrawlFetch \/ CrawlDownload

SpecFetch == InitFetch /\ [][NextFetch]_vars

(* ------------------------------ claims -------------------------------- *)

\* C1: whatever the interleaving of the workers' pop_frontier calls, no page
\* id is returned by two calls.
C1_NoPageReturnedTwice == repopped = {}

\* C1 witness: two workers have each returned from pop_frontier with a page
\* while rows were contended.
C1_Witness ==
    \E v, w \in Workers :
        /\ v # w
        /\ pop[v].pc = "ret" /\ pop[v].ret # Nothing
        /\ pop[w].pc = "ret" /\ pop[w].ret # Nothing
        /\ pop[v].ret # pop[w].ret

TerminalStates == {"HTML", "BINARY", "DUPLICATE", "REDIRECT", "FAILED"}

\* The step at which the spider's pop_frontier call returns.
SpiderPopReturns == pop[Spider].pc # "ret" /\ pop'[Spider].pc = "ret"

\* C2: pop_frontier returns (id, url) only of a page that was FRONTIER right
\* before; after the call that page is CRAWLING and every other row is as it
\* was; it returns None exactly when no page is FRONTIER.
C2_PopContract ==
    [][SpiderPopReturns =>
        LET r == pop'[Spider].ret IN
        IF r = Nothing
        THEN /\ \A i \in PageIds : pages[i].page_type_code # "FRONTIER"
             /\ pages' = pages
        ELSE /\ r[1] \in PageIds
             /\ pages[r[1]].page_type_code = "FRONTIER"
             /\ r[2] = pages[r[1]].url
             /\ pages'[r[1]].page_type_code = "CRAWLING"
             /\ DOMAIN pages' = DOMAIN pages
             /\ \A q \in PageIds \ {r[1]} : pages'[q] = pages[q]]_vars

\* C2 witness: pop_frontier has returned one of several pages, now CRAWLING.
C2_Witness ==
    /\ pop[Spider].pc = "ret"
    /\ pop[Spider].ret # Nothing
    /\ Len(pages) >= 2
    /\ pages[pop[Spider].ret[1]].page_type_code = "CRAWLING"

\* The step that calls add_to_frontier (the loop over new_links).
AddToFrontierStep == pc = "links" /\ frame'.new_links # frame.new_links

\* C3: add_to_frontier of a URL without a row returns the id of a new
\* FRONTIER row; of a URL that has a row it returns None and changes no row;
\* either way exactly one row holds the URL afterwards.
C3_AddToFrontierIdempotent ==
    [][AddToFrontierStep =>
        LET link == frame'.link
            link_id == frame'.link_id IN
        /\ Cardinality({i \in DOMAIN pages' : pages'[i].url = link}) = 1
        /\ IF UrlTaken(link)
           THEN link_id = None /\ pages' = pages
           ELSE /\ link_id \in DOMAIN pages' \ PageIds
                /\ pages'[link_id] = NewPage(link, None, "FRONTIER")
                /\ \A q \in PageIds : pages'[q] = pages[q]]_vars

\* C3 witness: add_to_frontier was called for a URL that already had a row,
\* a row that is no longer FRONTIER, and returned None.
C3_Witness ==
    /\ pc = "links"
    /\ frame.link # None
    /\ frame.link_id = None
    /\ \E i \in PagesWithUrl(frame.link) : pages[i].page_type_code # "FRONTIER"

\* C4: no two rows hold the same URL, whatever add_to_frontier and
\* create_new_page calls were made; create_new_page of a URL that has a row
\* returns the id of that row and creates none.
C4_UrlUnique ==
    /\ [](\A i, j \in PageIds : pages[i].url = pages[j].url => i = j)
    /\ [][(pc = "redirect_create" /\ UrlTaken(frame.url)) =>
            /\ pages' = pages
            /\ frame'.new_page_id \in PagesWithUrl(frame.url)]_vars

\* C4 witness: create_new_page has returned the id of a row that existed (it
\* is not in the state a new row has).
C4_Witness ==
    /\ pc = "redirect_link"
    /\ pages[frame.new_page_id].page_type_code # "FRONTIER"

C6_TerminalAbsorbing ==
    [][\A i \in PageIds :
        pages[i].page_type_code \in TerminalStates =>
            pages'[i].page_type_code = pages[i].page_type_code]_vars

\* C7: pop_frontier returns each page id at most once over the run, and no
\* step puts a row that is not FRONTIER into FRONTIER.
C7_PoppedOnce ==
    /\ [](repopped = {})
    /\ [][\A i \in PageIds :
            pages[i].page_type_code # "FRONTIER" =>
                pages'[i].page_type_code # "FRONTIER"]_vars

\* C7 witness: the crawl has ended after several pages were popped, one of
\* them a redirect.
C7_Witness ==
    /\ pc = "done"
    /\ Cardinality(popped) >= 2
    /\ \E i \in popped : pages[i].page_type_code = "REDIRECT"

\* The rows other than the current page that store the hash of the fetched body.
OtherHashRows == HashRows(Sha256(frame.html)) \ {frame.page_id}

\* A duplicate is being processed whose original is another page.
DuplicateOfOther == frame.original # Nothing /\ frame.original[1] # frame.page_id

\* C8: when the hash of the fetched body is stored for another page, the
\* current page becomes DUPLICATE, the edge current -> original is recorded
\* and is the only edge recorded for the duplicate; the current page is still
\* DUPLICATE when its processing ends.
C8_DuplicateLinkedToOriginal ==
    /\ [][(pc = "classify" /\ frame.html # None /\ OtherHashRows # {}) =>
            /\ pc' = "duplicate_link"
            /\ pages'[frame.page_id].page_type_code = "DUPLICATE"
            /\ frame'.original[1] \in OtherHashRows
            /\ links' = links]_vars
    /\ [][(pc = "duplicate_link" /\ DuplicateOfOther) =>
            /\ <<frame.page_id, frame.original[1]>> \in links'
            /\ <<frame.original[1], frame.page_id>> \notin links' \ links
            /\ links' \ links \subseteq {<<frame.page_id, frame.original[1]>>}]_vars
    /\ [](DuplicateOfOther => pages[frame.page_id].page_type_code = "DUPLICATE")

\* C8 witness: a page fetched after its original was linked to it.  The
\* original is the older row here; the edge still runs duplicate -> original.
C8_Witness ==
    /\ pc = "combine"
    /\ DuplicateOfOther
    /\ frame.page_id > frame.original[1]
    /\ <<frame.page_id, frame.original[1]>> \in links
    /\ <<frame.original[1], frame.page_id>> \notin links

C10_FirstSeenWins ==
    [][\A i \in PageIds :
        pages[i].html_content_hash # None =>
            /\ pages'[i].html_content_hash = pages[i].html_content_hash
            /\ pages'[i].page_type_code = pages[i].page_type_code]_vars

\* C11 as stated: when the fetch lands on another canonical URL,
\* create_new_page adds exactly one row, for the landing URL.
C11_RedirectCreatesRowOriginal ==
    [][pc = "redirect_create" =>
        /\ Len(pages') = Len(pages) + 1
        /\ pages'[Len(pages')].url = frame.url]_vars

\* C11 amended: when the fetch lands on another canonical URL, the popped
\* page is set to REDIRECT and stays so while it is processed; after
\* create_new_page exactly one row holds the landing URL (a new FRONTIER row
\* of the popped page's site, or, with no row added, the row that held the
\* URL already) and that row is the current page; the edge from the popped
\* page to it is recorded.
C11_Redirect ==
    [][/\ pc = "redirect" =>
            pages'[frame.frontier_id].page_type_code = "REDIRECT"
       /\ pc = "redirect_create" =>
            /\ Cardinality({i \in DOMAIN pages' : pages'[i].url = frame.url}) = 1
            /\ pages'[frame'.new_page_id].url = frame.url
            /\ IF \E i \in PageIds : pages[i].url = frame.url
               THEN pages' = pages
               ELSE pages' = Append(pages,
                                    NewPage(frame.url, frame.site_id, "FRONTIER"))
       /\ pc = "redirect_link" =>
            /\ links' = links \cup {<<frame.frontier_id, frame.new_page_id>>}
            /\ frame'.page_id = frame.new_page_id
       /\ (frame.new_page_id # None /\ pc # "redirect_link") =>
            /\ pages[frame.frontier_id].page_type_code = "REDIRECT"
            /\ <<frame.frontier_id, frame.new_page_id>> \in links
            /\ frame.new_page_id # frame.frontier_id]_vars

\* C11 witness: a redirect onto a URL that had a row already has been
\* processed: the popped page is REDIRECT, the edge is there, and the current
\* page is that older row.
C11_Witness ==
    /\ pc = "classify"
    /\ frame.new_page_id # None
    /\ frame.page_id = frame.new_page_id
    /\ frame.new_page_id < frame.frontier_id
    /\ pages[frame.frontier_id].page_type_code = "REDIRECT"
    /\ <<frame.frontier_id, frame.new_page_id>> \in links

HtmlStored ==
    /\ pc \in {"save_page_data", "combine", "links", "link_edge"}
    /\ pages[frame.page_id].page_type_code = "HTML"

\* The fetch landed on the requested URL.
NoRedirect == frame.new_page_id = None

PageDataOf(page_id) == {k \in DOMAIN page_data : page_data[k].page_id = page_id}

C14_FailureNeverEndsCrawl ==
    [][/\ pc = "except" => pc' = "combine"
       /\ pc = "spider_except" => (pc' = "pop" /\ pop'[Spider] = IdlePop)
       /\ pc' = "done" =>
            /\ pc = "pop"
            /\ pop[Spider].pc = "ret" /\ pop[Spider].ret = Nothing
            /\ \A i \in PageIds : pages[i].page_type_code # "FRONTIER"
       /\ pc \in {"pop", "except", "spider_except"} => ENABLED Next]_vars

\* C14 witness: the crawl went on after a page failed inside crawl_url (the
\* FAILED row has its site) and after a page whose exception left crawl_url
\* (the FAILED row has no site), and ended on an empty frontier.
C14_Witness ==
    /\ pc = "done"
    /\ \E i \in popped : /\ pages[i].page_type_code = "FAILED"
                         /\ pages[i].site_id = None
    /\ \E j \in popped : /\ pages[j].page_type_code = "FAILED"
                         /\ pages[j].site_id # None
    /\ \A i \in PageIds : pages[i].page_type_code # "FRONTIER"

\* The current page has been marked FAILED by crawl_url's handler and
\* crawl_url is in the rest of its body.
FailedInCrawl ==
    /\ pc \in {"combine", "links", "link_edge"}
    /\ pages[frame.page_id].page_type_code = "FAILED"

C16_CrawlTerminates ==
    <>(/\ pc = "done"
       /\ pop[Spider].ret = Nothing
       /\ repopped = {}
       /\ Cardinality(popped) <= Len(pages))

\* C16 witness: the loop has ended after one pop per URL of the universe.
C16_Witness ==
    /\ pc = "done"
    /\ Len(pages) = NumUrls
    /\ Cardinality(popped) = NumUrls

\* C17 as stated: when the crawl loop has ended, no page is in CRAWLING.
C17_NoCrawlingLeftOriginal ==
    pc = "done" => \A i \in PageIds : pages[i].page_type_code # "CRAWLING"

\* C17 amended: a page pop_frontier returned is in a terminal state as soon
\* as crawl_url is done with it, unless its DNS lookup failed: then crawl_url
\* returned without writing it.  When the crawl loop has ended, the pages in
\* CRAWLING are pages whose DNS lookup failed.
C17_PoppedReachTerminal ==
    /\ \A i \in popped :
          \/ pages[i].page_type_code \in TerminalStates
          \/ i \in dns_failed
          \/ i = frame.frontier_id
          \/ pop[Spider].pc = "ret" /\ pop[Spider].ret = <<i, pages[i].url>>
    /\ pc = "done" =>
          \A i \in PageIds : pages[i].page_type_code = "CRAWLING" => i \in dns_failed

\* C17 witness: the loop has ended; one popped page was processed to a
\* terminal state, another one is still CRAWLING after its DNS lookup failed.
C17_Witness ==
    /\ pc = "done"
    /\ \E i \in popped \ dns_failed : pages[i].page_type_code \in TerminalStates
    /\ \E i \in dns_failed : pages[i].page_type_code = "CRAWLING"

\* C18: when the DNS lookup of the popped page's host fails, crawl_url
\* returns with every table (page, site, link, image, page_data) as
\* pop_frontier left it, the popped row still CRAWLING, and without having
\* issued a sitemap request, a navigation or a download; requests are issued
\* only past the lookup.
C18_DnsFailureWritesNothing ==
    [][/\ (pc = "pop" /\ pc' = "dns") => db' = db
       /\ (pc = "dns" /\ pc' = "pop") =>
            /\ db' = db
            /\ pages'[frame.frontier_id].page_type_code = "CRAWLING"
            /\ frame.requests = << >>
            /\ frame' = NoFrame
       /\ frame.requests # << >> => pc \notin {"pop", "dns", "site"}]_vars

\* C18 witness: the DNS lookup of the first popped page failed: crawl_url
\* has returned, the page is CRAWLING and the other tables are empty.
C18_Witness ==
    /\ pc = "pop"
    /\ \E i \in dns_failed : pages[i].page_type_code = "CRAWLING"
    /\ sites = << >> /\ links = {} /\ images = << >> /\ page_data = << >>

\* C19: no two site rows, committed or not, have the same domain once www is
\* stripped; no save_site call raises; and every save_site call returns the
\* id of the one row of its normalised domain, whether it inserted the row
\* or read it after IntegrityError, so concurrent calls for one domain return
\* the same id.
C19_OneSitePerDomain ==
    /\ \A i, j \in DOMAIN sites :
          SelectSeq(sites[i].domain, LAMBDA l : l # "www")
              = SelectSeq(sites[j].domain, LAMBDA l : l # "www") => i = j
    /\ \A w \in Workers :
          /\ ~save[w].raised
          /\ save[w].pc = "ret" =>
                /\ save[w].ret \in DOMAIN sites
                /\ sites[save[w].ret].domain
                      = SelectSeq(save[w].domain, LAMBDA l : l # "www")
    /\ \A v, w \in Workers :
          (save[v].pc = "ret" /\ save[w].pc = "ret"
             /\ save[v].domain = save[w].domain) => save[v].ret = save[w].ret

\* C19 witness: two save_site calls for the same domain are in flight, one
\* has inserted and committed the row and returns its id, the other got
\* IntegrityError and is about to read the row.
C19_Witness ==
    \E v, w \in Workers :
        /\ save[v].pc = "ret" /\ save[v].ret = save[v].site_id
        /\ save[w].pc = "except"
        /\ save[w].domain = save[v].domain
        /\ VisibleSites(w, save[w].domain) = {save[v].ret}

\* C20: an add_page_link call for an edge the table holds leaves the table
\* as it is, a call for a new edge adds that edge, no call raises, and a
\* second call for the same edge inserts nothing.
C20_AddPageLinkIdempotent ==
    [][/\ ~add_link'.raised
       /\ links' = links \cup {<<add_link'.from_page, add_link'.to_page>>}
       /\ <<add_link'.from_page, add_link'.to_page>> \in links =>
             (links' = links /\ ~add_link'.added)
       /\ Cardinality(links') <= Cardinality(links) + 1]_vars

\* C20 witness: add_page_link was called for an edge the table held already.
C20_Witness ==
    /\ add_link.from_page # None
    /\ ~add_link.added
    /\ <<add_link.from_page, add_link.to_page>> \in links

\* The netloc without its www label.
Normalized(domain) == SelectSeq(domain, LAMBDA l : l # "www")

\* C21: over the whole run find_sitemap_links is called at most once per
\* normalised domain; it is called only for a page whose domain had no site
\* row, right after that row was saved and before any page carries that
\* site; for a page whose domain has a site row the sitemap URL set is empty,
\* crawl_url goes straight to the fetch, and no sitemap request is made
\* while that page is processed.
C21_SitemapWalkedOnce ==
    /\ [](\A i, j \in DOMAIN sitemaps_walked :
             Normalized(sitemaps_walked[i]) = Normalized(sitemaps_walked[j])
                 => i = j)
    /\ [][pc = "site" =>
             IF \E k \in DOMAIN sites : sites[k].domain = Normalized(frame.domain)
             THEN /\ pc' = "fetch"
                  /\ frame'.sitemap_urls = {}
                  /\ sitemaps_walked' = sitemaps_walked
             ELSE pc' = "sitemap"]_vars
    /\ [][sitemaps_walked' # sitemaps_walked =>
             /\ pc = "sitemap"
             /\ sitemaps_walked' = Append(sitemaps_walked, frame.domain)
             /\ frame.site_id = Len(sites)
             /\ sites[frame.site_id].domain = Normalized(frame.domain)
             /\ \A i \in PageIds : pages[i].site_id # frame.site_id]_vars
    /\ []((frame.sitemap_urls # {}
             \/ \E k \in DOMAIN frame.requests : frame.requests[k][1] = "sitemap")
            => /\ frame.site_id = Len(sites)
               /\ Len(sitemaps_walked) = Len(sites)
               /\ Normalized(sitemaps_walked[Len(sitemaps_walked)])
                     = sites[frame.site_id].domain)

\* C21 witness: a page of a host whose domain, up to www, was walked for an
\* earlier page is about to be fetched: no sitemap URLs, no sitemap request,
\* and still one walk on record.
C21_Witness ==
    /\ pc = "fetch"
    /\ frame.requests = << >>
    /\ frame.sitemap_urls = {}
    /\ Len(sitemaps_walked) = 1
    /\ UrlHost(frame.current_url) # sitemaps_walked[1]
    /\ Normalized(UrlHost(frame.current_url)) = Normalized(sitemaps_walked[1])

\* The raw downloads on the record of the requests of the current page.
Downloads == {k \in DOMAIN frame.requests : frame.requests[k][1] = "download"}

\* C23: while a page is processed at most one raw download is made, and it
\* is made only after page.goto raised the aborted load; after any other
\* navigation error no download is made and crawl_url's handler is next;
\* a download that raises, returns another status than 200 or is classified
\* HTML also leads to the handler; the handler marks the popped page FAILED
\* and the page is still FAILED when its processing ends.
C23_FallbackOnce ==
    /\ [](Cardinality(Downloads) <= 1)
    /\ [][frame'.requests # frame.requests /\ frame'.requests # << >>
             /\ frame'.requests[Len(frame'.requests)][1] = "download" =>
                /\ pc = "download"
                /\ frame.error = "net::ERR_ABORTED"
                /\ frame.requests[Len(frame.requests)][1] = "goto"]_vars
    /\ [][(pc = "fetch" /\ frame'.error \notin {NoneStr, "net::ERR_ABORTED"}) =>
             pc' = "except"]_vars
    /\ [](frame.error \notin {NoneStr, "net::ERR_ABORTED"} =>
             /\ Downloads = {}
             /\ \/ pc = "except"
                \/ /\ pc = "combine"
                   /\ pages[frame.page_id].page_type_code = "FAILED")
    /\ [][(pc = "download" /\ frame'.download \in {"raised", "status", "HTML"}) =>
             pc' = "except"]_vars
    /\ [][(pc = "except" /\ frame.error # NoneStr) =>
             /\ frame.page_id = frame.frontier_id
             /\ pages'[frame.frontier_id].page_type_code = "FAILED"
             /\ pc' = "combine"]_vars
    /\ [][(pc = "combine" \/ pc = "links" \/ pc = "link_edge") =>
             LET page_id == frame.page_id IN
             pages'[page_id].page_type_code = pages[page_id].page_type_code]_vars

\* C23 witness: the navigation was aborted, the one raw download answered
\* with a content type classified HTML, and crawl_url's handler is next.
C23_Witness ==
    /\ pc = "except"
    /\ frame.error = "net::ERR_ABORTED"
    /\ frame.download = "HTML"
    /\ Cardinality(Downloads) = 1

\* What is on the record of the requests besides the waits.
Requests == {k \in DOMAIN frame.requests : frame.requests[k][1] # "wait"}

\* C22: every request made while a page is processed (each sitemap document
\* of the walk, the navigation, the raw download) comes right after a wait
\* of the politeness gate of its own, for the key crawl_url holds for the
\* page, which is the page's host up to www.
C22_EveryRequestGated ==
    /\ \A k \in Requests :
          /\ k > 1
          /\ frame.requests[k - 1] = <<"wait", frame.domain>>
    /\ Requests # {} =>
          Normalized(frame.domain) = Normalized(UrlHost(frame.current_url))

\* C22 witness: the root sitemap and a nested one were fetched, then the
\* navigation was aborted and the raw download made.
C22_Witness ==
    /\ Cardinality({k \in Requests : frame.requests[k][1] = "sitemap"}) >= 2
    /\ \E k \in Requests : frame.requests[k][1] = "goto"
    /\ \E k \in Requests : frame.requests[k][1] = "download"

\* C25: get_sitemap_urls never raises, whatever documents of the walk fail
\* to be fetched or parsed; what it returns to find_sitemap_links is exactly
\* the leaf URLs of the documents that were fetched and parsed, and while it
\* runs the URLs of the calls under way are among them.
C25_SitemapFailureTolerated ==
    /\ ~walk.raised
    /\ walk.pc = "done" => walk.ret = walk.fetched
    /\ \A k \in DOMAIN walk.stack : walk.stack[k].new_urls \subseteq walk.fetched

\* C25 witness: a nested sitemap has just failed; the root's call goes on
\* with the URLs it had collected before.
C25_Witness ==
    /\ walk.pc = "run"
    /\ Len(walk.stack) = 1
    /\ walk.failures # {}
    /\ walk.stack[1].pc = "locs"
    /\ walk.stack[1].new_urls # {}

\* The commits save_page_data made for entry k of its list.
InsertsOf(k) == {j \in DOMAIN data_call.inserts : data_call.inserts[j].entry = k}

\* C24: save_page_data commits each entry at most twice: an entry whose
\* first commit fails with IntegrityError is committed once more with the
\* type UNKNOWN, right after; the call does not raise; and every entry of the
\* list, before and after such an entry, has its row afterwards, with its own
\* type or, when it was retried, with UNKNOWN.
C24_PageDataRetriedOnce ==
    [][data_call' # data_call =>
        LET entries == data_call'.entries
            inserts == data_call'.inserts
            first(k) == CHOOSE j \in DOMAIN inserts :
                           /\ inserts[j].entry = k
                           /\ \A i \in DOMAIN inserts : inserts[i].entry = k => j <= i
        IN
        /\ ~data_call'.raised
        /\ \A k \in DOMAIN entries :
              LET mine == {j \in DOMAIN inserts : inserts[j].entry = k} IN
              /\ mine # {}
              /\ Cardinality(mine) <= 2
              /\ inserts[first(k)].data_type_code = entries[k].data_type_code
              /\ IF inserts[first(k)].failed
                 THEN /\ mine = {first(k), first(k) + 1}
                      /\ inserts[first(k) + 1].data_type_code = "UNKNOWN"
                      /\ ~inserts[first(k) + 1].failed
                 ELSE mine = {first(k)}
        /\ Len(page_data') = Len(page_data) + Len(entries)
        /\ \A k \in DOMAIN entries :
              page_data'[Len(page_data) + k] =
                 [page_id |-> entries[k].page_id,
                  data_type_code |->
                     IF entries[k].data_type_code
                            \in {"PDF", "DOC", "DOCX", "UNKNOWN"}
                     THEN entries[k].data_type_code ELSE "UNKNOWN"]
        /\ \A k \in DOMAIN page_data : page_data'[k] = page_data[k]]_vars

\* C24 witness: the first entry of a list was of a type data_type does not
\* hold and was committed twice, the entry after it once; both have rows.
C24_Witness ==
    /\ Len(data_call.entries) >= 2
    /\ data_call.entries[1].data_type_code = "ODT"
    /\ data_call.entries[2].data_type_code = "PDF"
    /\ Cardinality(InsertsOf(1)) = 2
    /\ Cardinality(InsertsOf(2)) = 1
    /\ Len(page_data) >= 2
    /\ page_data[Len(page_data)].data_type_code = "PDF"
    /\ page_data[Len(page_data) - 1].data_type_code = "UNKNOWN"

\* The workers whose add_to_frontier or create_new_page call for this URL
\* has returned.
Returned(url) == {w \in Workers : push[w].pc = "ret" /\ push[w].url = url}

\* C26: whatever the interleaving of the workers' add_to_frontier and
\* create_new_page calls, no two page rows hold the same URL and no call
\* raises; of the calls for one URL that have returned exactly one inserted
\* the row and returns its id, every other add_to_frontier call returns None
\* and every other create_new_page call returns the id of that row; so of
\* two add_to_frontier calls for a new URL exactly one returns an id.
C26_InsertRaceRecovered ==
    /\ \A i, j \in PageIds : pages[i].url = pages[j].url => i = j
    /\ \A w \in Workers : ~push[w].raised
    /\ \A url \in Urls :
          Returned(url) # {} =>
             /\ Cardinality({i \in PageIds : pages[i].url = url}) = 1
             /\ \E w \in Returned(url) :
                   /\ push[w].page_id # None
                   /\ push[w].ret = push[w].page_id
                   /\ pages[push[w].ret].url = url
                   /\ \A v \in Returned(url) \ {w} :
                         /\ push[v].page_id = None
                         /\ push[v].ret = IF push[v].op = "add_to_frontier"
                                          THEN None ELSE push[w].ret

\* C26 witness: two add_to_frontier calls for the same URL that were in
\* flight together have returned, one with the id of the row, one with None.
C26_Witness ==
    \E v, w \in Workers :
        /\ v # w
        /\ push[v].pc = "ret" /\ push[w].pc = "ret"
        /\ push[v].url = push[w].url
        /\ push[v].op = "add_to_frontier" /\ push[w].op = "add_to_frontier"
        /\ push[v].ret # None
        /\ push[w].ret = None

\* C27 as stated: canonicalize applied to its own result returns that
\* result, and every URL it returns has no query, no fragment and ends with
\* "/" or with a filename with an extension.
C27_CanonicalizeIdempotent ==
    canon.url # << >> =>
        /\ canon.twice = canon.once
        /\ \A u \in canon.once :
              /\ \A i \in DOMAIN u : u[i] \notin {"?", "#"}
              /\ u[Len(u)] = "/" \/ has_file_extension(u)

\* C28 as stated: a page row holds raw content or a content hash only while
\* its state is HTML.
C28_ContentOnlyInHtml ==
    \A i \in PageIds :
        pages[i].page_type_code # "HTML" =>
            /\ pages[i].html_content = None
            /\ pages[i].html_content_hash = None

\* C29 as stated: when the navigation was aborted and the raw download
\* returned a document type, the popped page ends BINARY, exactly one
\* PageData record with that type is stored for it, and no links are
\* extracted from it.
C29_AbortedDownloadIsBinary ==
    [][frame.download = "returned" /\ pc # "combine" /\ pc' = "combine" =>
          /\ pages'[frame.frontier_id].page_type_code = "BINARY"
          /\ page_data' = Append(page_data, [page_id |-> frame.frontier_id,
                                             data_type_code |-> frame.data_type])
          /\ frame'.page_urls = {}]_vars

\* C30: in the loop over the discovered URLs, add_to_frontier of a URL that
\* has a row adds no row and no edge and the loop goes on; for a URL without
\* a row it adds one FRONTIER row, and the next step records the edge from
\* the current page to that new row; no other step of the loop adds an edge.
C30_EdgeIffNewRow ==
    [][/\ (pc = "links" /\ pc' # "pop") =>
             /\ links' = links
             /\ IF UrlTaken(frame'.link)
                THEN /\ pages' = pages
                     /\ frame'.link_id = None
                     /\ pc' = "links"
                ELSE /\ pages' = Append(pages, NewPage(frame'.link, None, "FRONTIER"))
                     /\ frame'.link_id = Len(pages) + 1
                     /\ pc' = "link_edge"
       /\ (pc = "links" /\ pc' = "pop") => links' = links /\ pages' = pages
       /\ pc = "link_edge" =>
             /\ frame.link_id = Len(pages)
             /\ pages[frame.link_id].url = frame.link
             /\ <<frame.page_id, frame.link_id>> \notin links
             /\ links' = links \cup {<<frame.page_id, frame.link_id>>}
             /\ pages' = pages
             /\ pc' = "links"]_vars

\* C30 witness: in one loop a URL without a row got a row and the edge from
\* the current page, and the URL after it had a row and got neither.
C30_Witness ==
    /\ pc = "links"
    /\ frame.link # None
    /\ frame.link_id = None
    /\ \E j \in PageIds :
          /\ <<frame.page_id, j>> \in links
          /\ pages[j].page_type_code = "FRONTIER"
          /\ j = Len(pages)
          /\ j # frame.page_id

\* C31: once a redirect is detected and the landing page is the current
\* one, the popped page stays REDIRECT with status 301 and no step changes
\* its row; the only row of the table a step changes is the landing page's;
\* every image and page-data record a step adds is the landing page's; every
\* edge a step adds starts at the landing page.
C31_WritesGoToLandingPage ==
    [][(frame.new_page_id # None /\ pc # "redirect_link") =>
          /\ frame.page_id = frame.new_page_id
          /\ frame.new_page_id # frame.frontier_id
          /\ pages[frame.frontier_id].page_type_code = "REDIRECT"
          /\ pages[frame.frontier_id].http_status_code = RedirectStatus
          /\ \A i \in PageIds \ {frame.new_page_id} : pages'[i] = pages[i]
          /\ \A k \in DOMAIN page_data' \ DOMAIN page_data :
                page_data'[k].page_id = frame.new_page_id
          /\ \A k \in DOMAIN images' \ DOMAIN images :
                images'[k].page_id = frame.new_page_id
          /\ \A e \in links' \ links : e[1] = frame.new_page_id]_vars

\* C31 witness: after a redirect the landing page was stored as HTML with a
\* page-data record and an edge to a discovered link, and the popped page is
\* REDIRECT.
C31_Witness ==
    /\ pc = "links"
    /\ frame.new_page_id # None
    /\ pages[frame.frontier_id].page_type_code = "REDIRECT"
    /\ pages[frame.new_page_id].page_type_code = "HTML"
    /\ \E k \in DOMAIN page_data : page_data[k].page_id = frame.new_page_id
    /\ \E j \in PageIds : <<frame.new_page_id, j>> \in links /\ j = frame.link_id

\* C32: with the one spider, no two page rows hold the same non-null
\* content hash and a DUPLICATE row holds none; a step stores a hash on a row
\* only when no row held that hash before the step.
C32_HashUnique ==
    /\ [](\A i, j \in PageIds :
            /\ (pages[i].html_content_hash # None
                 /\ pages[i].html_content_hash = pages[j].html_content_hash) => i = j
            /\ pages[i].page_type_code = "DUPLICATE" =>
                  pages[i].html_content_hash = None)
    /\ [][\A i \in PageIds :
            (pages'[i].html_content_hash # None
             /\ pages'[i].html_content_hash # pages[i].html_content_hash) =>
                HashRows(pages'[i].html_content_hash) = {}]_vars

\* C32 witness: a page whose body hashes to the hash of another row, a row
\* that is FAILED by now, was stored DUPLICATE with no hash.
C32_Witness ==
    /\ pc = "duplicate_link"
    /\ pages[frame.page_id].page_type_code = "DUPLICATE"
    /\ frame.original[1] # frame.page_id
    /\ pages[frame.original[1]].page_type_code = "FAILED"
    /\ pages[frame.original[1]].html_content_hash = Sha256(frame.html)

\* C33 as stated: the link table holds no edge from a page to itself.
C33_NoSelfEdge == \A e \in links : e[1] # e[2]

\* C34 as stated: the walk fetches each sitemap document a bounded number
\* of times, also when a document names itself or an ancestor: no
\* get_sitemap_urls call is made for a sitemap that a call under way is
\* walking, so the calls nest no deeper than there are documents.
C34_SitemapWalkBounded ==
    \A j, k \in DOMAIN walk.stack :
        walk.stack[j].url = walk.stack[k].url => j = k

C36_OnlyAllowedRows ==
    \A i \in PageIds :
        i > NumSeeds => is_url_allowed(pages[i].url) /\ is_domain_allowed(pages[i].url)

====
